---------------------------- MODULE Spec2Model ----------------------------
(***************************************************************************)
(* LLMRepo backend (src/backend/main.py): the repository ingestion and     *)
(* context-assembly pipeline.                                              *)
(*                                                                         *)
(* Part 1 (specification Spec): the request life cycle.  Each request      *)
(* runs clone_repository, the endpoint body and the endpoint's finally     *)
(* block; force_delete_directory is modelled loop iteration by loop        *)
(* iteration.  Requests share the temporary root (fs) and the wall clock.  *)
(* Steps of different requests interleave: this is what several server     *)
(* processes started on one host (sharing tempfile.gettempdir()) do.       *)
(*                                                                         *)
(* Part 2 (specification SpecCtx): process_code_for_llm as a pure          *)
(* function of the workspace content and the explicit file list.           *)
(*                                                                         *)
(* Part 3 (specification SpecLarge): process_code_for_llm on repositories  *)
(* of 10 to 500 source files, where the caps on counts and lengths bite.   *)
(*                                                                         *)
(* Part 4 (specification SpecHelpers): single calls of get_repo_structure, *)
(* get_file_content, generate_gemini_response and of the name derivation   *)
(* and failure classification of clone_repository.                         *)
(***************************************************************************)
EXTENDS Integers, Sequences, FiniteSets, TLC

VARIABLES clock, fs, req, ws, walk, explicit, out, cpc, helper

vars == <<clock, fs, req, ws, walk, explicit, out, cpc, helper>>
reqVars == <<clock, fs, req>>
ctxVars == <<ws, walk, explicit, out, cpc, helper>>

(***************************************************************************)
(* Bounds of the model.                                                    *)
(***************************************************************************)
\* the clock takes the values 0..MaxClock (whole seconds, int(time.time()))
MaxClock == 1

\* the requests in flight
Requests == {"r1", "r2"}

(***************************************************************************)
(* Program constants.                                                      *)
(***************************************************************************)
\* force_delete_directory(dir_path, max_retries=3, delay=0.5)
max_retries == 3

(***************************************************************************)
(* Text helpers: a Python str is a sequence of one-character strings.      *)
(***************************************************************************)
Min(a, b) == IF a <= b THEN a ELSE b

\* s.endswith(suffix)
EndsWith(s, suffix) ==
    /\ Len(s) >= Len(suffix)
    /\ SubSeq(s, Len(s) - Len(suffix) + 1, Len(s)) = suffix

\* the index of the last "/" of s, 0 when there is none
LastSlash(s) ==
    LET idx == {i \in 1..Len(s) : s[i] = "/"}
    IN  IF idx = {} THEN 0 ELSE CHOOSE i \in idx : \A j \in idx : j <= i

NoMatch == <<"<no match>">>

DotGit == <<".", "g", "i", "t">>

\* re.search(r"/([^/]+?)(\.git)?$", repo_url).group(1), or NoMatch.
\* Group 1 holds no "/", and the match must reach the end of the string, so the
\* match starts at the last "/"; the lazy group 1 stops before a final ".git"
\* when at least one character is left for it.
RepoName(repo_url) ==
    LET k == LastSlash(repo_url)
        rest == SubSeq(repo_url, k + 1, Len(repo_url))
    IN  IF k = 0 \/ rest = <<>> THEN NoMatch
        ELSE IF EndsWith(rest, DotGit) /\ Len(rest) > Len(DotGit)
             THEN SubSeq(rest, 1, Len(rest) - Len(DotGit))
             ELSE rest

\* the repository URLs the requests name
UrlText(u) ==
    CASE u = "app.git" ->
           <<"h","t","t","p","s",":","/","/","g","i","t","h","u","b",".","c","o","m",
             "/","a","c","m","e","/","a","p","p",".","g","i","t">>
      [] u = "app" ->
           <<"h","t","t","p","s",":","/","/","g","i","t","h","u","b",".","c","o","m",
             "/","a","c","m","e","/","a","p","p">>
      [] u = "lib" ->
           <<"h","t","t","p","s",":","/","/","g","i","t","h","u","b",".","c","o","m",
             "/","a","c","m","e","/","l","i","b">>
      [] u = "app/" ->
           <<"h","t","t","p","s",":","/","/","g","i","t","h","u","b",".","c","o","m",
             "/","a","c","m","e","/","a","p","p","/">>
      [] u = "host" ->
           <<"h","t","t","p","s",":","/","/","g","i","t","h","u","b",".","c","o","m">>

Urls == {"app.git", "app", "lib", "app/"}

Endpoints == {"info", "query", "summarize", "dependencies"}

(***************************************************************************)
(* Workspace paths: os.path.join(TEMP_DIR, f"llmrepo_{repo_name}_{int(time.time())}") *)
(***************************************************************************)
NoDir == <<>>

RepoDir(repo_name, now) == <<repo_name, now>>

(***************************************************************************)
(* force_delete_directory                                                  *)
(***************************************************************************)
\* what one shutil.rmtree(dir_path, onerror=onerror) call can do:
\*   "removed"   the tree is gone;
\*   "swallowed" onerror printed and returned for some entry (lines 91-102), so
\*               rmtree returns normally and the path is still there;
\*   "PermissionError", "OSError"  an exception leaves rmtree (os.chmod in
\*               onerror raised, line 87).
RmtreeOutcomes == {"removed", "swallowed", "PermissionError", "OSError"}

\* lines 119-125: `except PermissionError` and `except Exception` catch every
\* exception of the try body (both print, sleep and go on with the next attempt).
FddCatchesOnlyPermissionError(exc) == exc # "PermissionError"

FddPropagates(exc) == FALSE

\* lines 112-114: the check after rmtree returned: True when the path is gone.
FddRecheckSkipped(exists) == TRUE

FddRecheckReturns(exists) == ~exists

\* lines 128-131: the result after the loop.
FddFinalAlwaysFalse(exists) == FALSE

FddFinalResult(exists) == ~exists

(***************************************************************************)
(* clone_repository: classification of a clone failure (lines 172-189).    *)
(* A failure is [type, auth, branch]: the exception type and whether       *)
(* str(e) holds "Authentication failed" / "could not find remote branch".  *)
(***************************************************************************)
CloneFailures ==
    [type : {"GitCommandError", "Exception"}, auth : BOOLEAN, branch : BOOLEAN]

CloneError(f) ==
    IF f.type = "GitCommandError"
    THEN IF f.auth THEN "err400_authentication"
         ELSE IF f.branch THEN "err400_branch"
         ELSE "err400_unspecified"
    ELSE "err500_clone"

(***************************************************************************)
(* The endpoints (lines 383-647).                                          *)
(***************************************************************************)
\* what the body of an endpoint can end with once the clone succeeded:
\* a response, an HTTPException of a helper, any other Exception (turned
\* into HTTP 500 by the endpoint), or an interrupt (a BaseException, which
\* no except clause of the endpoint catches).
BodyOutcomes(ep) ==
    {"ok", "err503", "exception", "interrupt"}
        \cup (IF ep = "summarize" THEN {"err404"} ELSE {})

\* lines 405-412: except HTTPException: raise e / except Exception: HTTP 500
EndpointResultRaw(outcome) == outcome

EndpointResult(outcome) ==
    IF outcome = "exception" THEN "err500_unexpected" ELSE outcome

\* lines 413-417: the finally block ignores what force_delete_directory returns
FinallyResult(result, ret) == result

\* lines 148-150: the clean-up before cloning
PreCleanIgnored(ret) == TRUE

PreCleanOk(ret) == ret = "True"

(***************************************************************************)
(* State of one request.                                                   *)
(***************************************************************************)
IdleReq ==
    [pc |-> "idle",
     dir |-> NoDir,          \* clone_repository's repo_dir
     repo_dir |-> NoDir,     \* the endpoint's repo_dir (None until the clone returns)
     err |-> "none",         \* the HTTPException clone_repository is about to raise
     result |-> "none",      \* what the caller gets
     created |-> FALSE,      \* the clone step of this request created dir
     site |-> "none",        \* the last call site of force_delete_directory
     attempt |-> 0,          \* loop iterations done by the running call
     deletes |-> 0,          \* rmtree calls of the running call
     sleeps |-> 0,           \* time.sleep calls of the running call
     clones |-> 0,           \* git.Repo.clone_from calls of the request
     ret |-> "none"]         \* what the last call returned

\* entering force_delete_directory(dir) from `site`
EnterFdd(q, site) ==
    [q EXCEPT !.pc = "fdd", !.site = site, !.attempt = 0, !.deletes = 0,
              !.sleeps = 0, !.ret = "none"]

\* force_delete_directory returned `ret` ("True" / "False"): its frame is gone,
\* and its caller goes on: lines 148-150 (before the clone), line 184 or 189
\* (clone_repository raises the error it built), or the end of the finally block.
AfterFdd(q, ret) ==
    LET q1 == [q EXCEPT !.ret = ret, !.attempt = 0, !.deletes = 0, !.sleeps = 0]
    IN  CASE q.site = "pre" ->
               IF PreCleanOk(ret)
               THEN [q1 EXCEPT !.pc = "clone"]
               ELSE [q1 EXCEPT !.pc = "done", !.result = "err500_setup"]
          [] q.site = "fail" ->
               [q1 EXCEPT !.pc = "done", !.result = q.err, !.err = "none"]
          [] q.site = "final" ->
               [q1 EXCEPT !.pc = "done", !.result = FinallyResult(q.result, ret)]

\* an exception left force_delete_directory (no path of the code does this):
\* before the clone and in clone_repository's except clause it reaches the
\* endpoint's `except Exception`; in the finally block it replaces the response.
FddRaised(q) ==
    LET q1 == [q EXCEPT !.ret = "raised", !.pc = "done", !.err = "none",
                        !.attempt = 0, !.deletes = 0, !.sleeps = 0]
    IN  IF q.site = "final"
        THEN [q1 EXCEPT !.result = "raw_exception"]
        ELSE [q1 EXCEPT !.result = "err500_unexpected"]

\* lines 182-184 and 188-189: clone_repository caught failure f of the clone:
\* it builds the error, calls force_delete_directory(repo_dir), then raises.
OnCloneFailureNoCleanup(q, f) ==
    [q EXCEPT !.pc = "done", !.result = CloneError(f)]

\* a failed clone that is tried again
OnCloneFailureRetry(q, f) == [q EXCEPT !.pc = "clone"]

OnCloneFailure(q, f) == EnterFdd([q EXCEPT !.err = CloneError(f)], "fail")

(***************************************************************************)
(* Actions of the request life cycle.                                      *)
(***************************************************************************)
\* the wall clock reaches the next second
Tick ==
    /\ clock < MaxClock
    /\ clock' = clock + 1
    /\ UNCHANGED <<fs, req>>
    /\ UNCHANGED ctxVars

\* lines 386-388 and 136-150: a request arrives; clone_repository derives the
\* name, builds the destination path and looks whether it exists.
Start(r) ==
    /\ req[r].pc = "idle"
    /\ \E u \in Urls :
         LET name == RepoName(UrlText(u))
             d == RepoDir(name, clock)
             q == req[r]
         IN  req' = [req EXCEPT ![r] =
                 IF name = NoMatch
                 THEN [q EXCEPT !.pc = "done", !.result = "err400_url"]
                 ELSE IF d \in fs
                      THEN EnterFdd([q EXCEPT !.dir = d], "pre")
                      ELSE [q EXCEPT !.dir = d, !.pc = "clone"]]
    /\ UNCHANGED <<clock, fs>>
    /\ UNCHANGED ctxVars

\* line 169, first half: git starts the clone.  git refuses a destination that
\* exists and is not empty; otherwise it fails before it creates the
\* destination, or creates it.
CloneBegin(r) ==
    /\ req[r].pc = "clone"
    /\ LET q == [req[r] EXCEPT !.clones = @ + 1]
       IN  IF q.dir \in fs
           THEN /\ req' = [req EXCEPT ![r] =
                      OnCloneFailure(q, [type |-> "GitCommandError", auth |-> FALSE,
                                         branch |-> FALSE])]
                /\ fs' = fs
           ELSE \/ /\ fs' = fs \cup {q.dir}
                   /\ req' = [req EXCEPT ![r] =
                          [q EXCEPT !.pc = "cloning", !.created = TRUE]]
                \/ /\ \E f \in CloneFailures :
                        req' = [req EXCEPT ![r] = OnCloneFailure(q, f)]
                   /\ fs' = fs
    /\ UNCHANGED clock
    /\ UNCHANGED ctxVars

\* line 169, second half, and lines 170-171: the clone succeeds and the
\* endpoint's repo_dir is bound.
CloneOk(r) ==
    /\ req[r].pc = "cloning"
    /\ req[r].dir \in fs
    /\ req' = [req EXCEPT ![r] = [@ EXCEPT !.pc = "work", !.repo_dir = req[r].dir]]
    /\ UNCHANGED <<clock, fs>>
    /\ UNCHANGED ctxVars

\* lines 172-189: the clone fails with an Exception after the destination was
\* created; git may or may not have removed what it wrote.
CloneFail(r) ==
    /\ req[r].pc = "cloning"
    /\ \E f \in CloneFailures, left \in BOOLEAN :
         /\ fs' = IF left THEN fs ELSE fs \ {req[r].dir}
         /\ req' = [req EXCEPT ![r] = OnCloneFailure(req[r], f)]
    /\ UNCHANGED clock
    /\ UNCHANGED ctxVars

\* an interrupt (KeyboardInterrupt, SystemExit: not an Exception) strikes
\* while git.Repo.clone_from runs: neither except clause of clone_repository
\* catches it, the endpoint's repo_dir is still None, so its finally block
\* (line 415, `if repo_dir:`) does nothing.
CloneInterrupt(r) ==
    /\ req[r].pc = "cloning"
    /\ req' = [req EXCEPT ![r] = [@ EXCEPT !.pc = "done", !.result = "interrupt"]]
    /\ UNCHANGED <<clock, fs>>
    /\ UNCHANGED ctxVars

\* the body of one of the four endpoints after the clone, up to the finally
\* block, which calls force_delete_directory(repo_dir) (repo_dir is set).  The
\* four endpoints differ only here, so the endpoint is drawn in this step.
Body(r) ==
    /\ req[r].pc = "work"
    /\ \E ep \in Endpoints : \E o \in BodyOutcomes(ep) :
         req' = [req EXCEPT ![r] =
             EnterFdd([@ EXCEPT !.result = EndpointResult(o)], "final")]
    /\ UNCHANGED <<clock, fs>>
    /\ UNCHANGED ctxVars

\* lines 107-110 with the path absent: the iteration does nothing.
FddSkip(r) ==
    /\ req[r].pc = "fdd"
    /\ req[r].attempt < max_retries
    /\ req[r].dir \notin fs
    /\ req' = [req EXCEPT ![r] =
           [@ EXCEPT !.attempt = @ + 1]]
    /\ UNCHANGED <<clock, fs>>
    /\ UNCHANGED ctxVars

\* lines 107-110 and 119-125 with the path present: one rmtree call.
FddDelete(r) ==
    /\ req[r].pc = "fdd"
    /\ req[r].attempt < max_retries
    /\ req[r].dir \in fs
    /\ \E o \in RmtreeOutcomes :
         LET q == [req[r] EXCEPT !.deletes = @ + 1]
         IN  /\ fs' = IF o = "removed" THEN fs \ {q.dir} ELSE fs
             /\ req' = [req EXCEPT ![r] =
                    IF o \in {"removed", "swallowed"}
                    THEN [q EXCEPT !.pc = "recheck"]
                    ELSE IF FddPropagates(o)
                         THEN FddRaised(q)
                         ELSE [q EXCEPT !.attempt = @ + 1, !.sleeps = @ + 1]]
    /\ UNCHANGED clock
    /\ UNCHANGED ctxVars

\* lines 112-118: rmtree returned; look again.
FddRecheck(r) ==
    /\ req[r].pc = "recheck"
    /\ LET e == req[r].dir \in fs
           q == req[r]
       IN  req' = [req EXCEPT ![r] =
               IF FddRecheckReturns(e)
               THEN AfterFdd(q, "True")
               ELSE [q EXCEPT !.pc = "fdd", !.attempt = @ + 1]]
    /\ UNCHANGED <<clock, fs>>
    /\ UNCHANGED ctxVars

\* lines 127-131: the loop is over.
FddFinal(r) ==
    /\ req[r].pc = "fdd"
    /\ req[r].attempt = max_retries
    /\ LET e == req[r].dir \in fs
           q == req[r]
       IN  req' = [req EXCEPT ![r] =
               AfterFdd(q, IF FddFinalResult(e) THEN "True" ELSE "False")]
    /\ UNCHANGED <<clock, fs>>
    /\ UNCHANGED ctxVars

Next ==
    \/ Tick
    \/ \E r \in Requests : Start(r)
    \/ \E r \in Requests : CloneBegin(r)
    \/ \E r \in Requests : CloneOk(r)
    \/ \E r \in Requests : CloneFail(r)
    \/ \E r \in Requests : CloneInterrupt(r)
    \/ \E r \in Requests : Body(r)
    \/ \E r \in Requests : FddSkip(r)
    \/ \E r \in Requests : FddDelete(r)
    \/ \E r \in Requests : FddRecheck(r)
    \/ \E r \in Requests : FddFinal(r)

ReqInit ==
    /\ clock = 0
    /\ fs = {}
    /\ req = [r \in Requests |-> IdleReq]

\* the last call of a helper: its name, its argument, the exception that left
\* it ("no": it returned) and the value it returned
NoCall == [fn |-> "none", arg |-> <<>>, raised |-> "no", value |-> <<>>]

CtxIdle ==
    /\ ws = <<>>
    /\ walk = <<>>
    /\ explicit = <<>>
    /\ out = <<>>
    /\ cpc = "off"
    /\ helper = NoCall

Init == ReqInit /\ CtxIdle

Spec == Init /\ [][Next]_vars

(***************************************************************************)
(* Part 2: process_code_for_llm (lines 307-380) and the helpers it calls.  *)
(*                                                                         *)
(* A path and a file's text are Python strings: sequences of characters.   *)
(* A workspace maps every path of the universe Files to what is there:     *)
(* nothing, a regular file (with its text) or a file open() cannot read.   *)
(* The returned context string is modelled by the sequence of its          *)
(* sections:                                                               *)
(*   [kind |-> "file", path, body]         "--- File: path ---" + excerpt  *)
(*   [kind |-> "placeholder", path, body]  "(Could not be read or found)"  *)
(*   [kind |-> "listing", path, body]      the file structure list; body   *)
(*                                         is the sequence of listed paths *)
(***************************************************************************)
\* explicit file lists have at most MaxExplicit entries
MaxExplicit == 2

\* the length of the long file texts (longer than every cap)
LongLen == 5001

\* content[:5000], content[:3000], content[:2500]
explicit_cap == 5000

readme_cap == 3000

source_cap == 2500

max_additional_files == 10

structure_limit == 200

listing_limit == 75

readme_names ==
    <<<<"R", "E", "A", "D", "M", "E", ".", "m", "d">>,
      <<"r", "e", "a", "d", "m", "e", ".", "m", "d">>,
      <<"R", "E", "A", "D", "M", "E">>,
      <<"R", "E", "A", "D", "M", "E", ".", "t", "x", "t">>>>

priority_files ==
    <<<<"p", "a", "c", "k", "a", "g", "e", ".", "j", "s", "o", "n">>,
      <<"r", "e", "q", "u", "i", "r", "e", "m", "e", "n", "t", "s", ".", "t", "x", "t">>,
      <<"p", "o", "m", ".", "x", "m", "l">>,
      <<"b", "u", "i", "l", "d", ".", "g", "r", "a", "d", "l", "e">>,
      <<"C", "a", "r", "g", "o", ".", "t", "o", "m", "l">>,
      <<"s", "e", "t", "u", "p", ".", "p", "y">>,
      <<"m", "a", "i", "n", ".", "p", "y">>,
      <<"i", "n", "d", "e", "x", ".", "j", "s">>,
      <<"a", "p", "p", ".", "p", "y">>,
      <<"s", "e", "r", "v", "e", "r", ".", "j", "s">>>>

source_extensions ==
    {<<".", "p", "y">>, <<".", "j", "s">>, <<".", "t", "s">>, <<".", "j", "s", "x">>,
     <<".", "t", "s", "x">>, <<".", "j", "a", "v", "a">>, <<".", "c">>,
     <<".", "c", "p", "p">>, <<".", "h">>, <<".", "g", "o">>, <<".", "r", "s">>,
     <<".", "p", "h", "p">>, <<".", "h", "t", "m", "l">>, <<".", "c", "s", "s">>,
     <<".", "s", "c", "s", "s">>, <<".", "v", "u", "e">>, <<".", "r", "b">>}

\* the paths of the modelled workspaces
P_readme == <<"R", "E", "A", "D", "M", "E", ".", "m", "d">>

P_readme_plain == <<"R", "E", "A", "D", "M", "E">>

P_main == <<"m", "a", "i", "n", ".", "p", "y">>

P_package == <<"p", "a", "c", "k", "a", "g", "e", ".", "j", "s", "o", "n">>

P_util == <<"u", "t", "i", "l", ".", "j", "s">>

P_app == <<"s", "r", "c", "/", "a", "p", "p", ".", "p", "y">>

P_notes == <<"n", "o", "t", "e", "s", ".", "t", "x", "t">>

P_head == <<".", "g", "i", "t", "/", "H", "E", "A", "D">>

\* a directory of the workspace (not a regular file)
P_src == <<"s", "r", "c">>

Files == {P_readme, P_readme_plain, P_main, P_package, P_util, P_app, P_notes, P_head}

\* file texts
T_print == <<"p", "r", "i", "n", "t", "(", "1", ")">>

\* the text of a file that is not part of the workspace
T_outside == <<"r", "o", "o", "t", ":", "x", ":", "0">>

T_long == [i \in 1..LongLen |-> IF i % 2 = 1 THEN "x" ELSE "y"]

\* the bytes of a file that is not valid UTF-8: "0xFF" stands for the byte FF
B_invalid == <<"a", "b", "0xFF", "c", "d">>

\* bytes.decode("utf-8", errors="ignore"): the invalid bytes are dropped
DecodeIgnore(bytes) ==
    LET Valid(b) == b # "0xFF"
    IN  SelectSeq(bytes, Valid)

\* what a path of a workspace is: "absent", a regular file with the text
\* TextOf(kind) ("empty", "short", "long"), or a file that open() cannot read
TextOf(kind) ==
    CASE kind = "short" -> T_print
      [] kind = "long" -> T_long
      [] kind = "invalid" -> DecodeIgnore(B_invalid)
      [] kind = "outside" -> T_outside
      [] OTHER -> <<>>

IsRegularFile(kind) == kind \in {"empty", "short", "long", "invalid", "outside"}

\* what each path of the universe can be in a workspace
Options(p) ==
    CASE p = P_readme -> {"absent", "empty", "short", "long"}
      [] p = P_readme_plain -> {"absent", "short"}
      [] p = P_main -> {"absent", "empty", "short", "long"}
      [] p = P_package -> {"absent", "short"}
      [] p = P_util -> {"absent", "short", "long"}
      [] p = P_app -> {"absent", "short", "unreadable"}
      [] p = P_notes -> {"short"}
      [] p = P_head -> {"short"}

Kinds == {"absent", "empty", "short", "long", "unreadable"}

Workspaces == {w \in [Files -> Kinds] : \A p \in Files : w[p] \in Options(p)}

\* the order in which os.walk yields the files (scandir order is arbitrary;
\* topdown, so the files of the root come before those of its directories)
WalkOrders ==
    {<<P_readme, P_readme_plain, P_main, P_package, P_util, P_notes, P_head, P_app>>,
     <<P_util, P_notes, P_package, P_main, P_readme_plain, P_readme, P_app, P_head>>}

\* context["files"]
ExplicitCandidates == {P_readme, P_main, P_app, P_src}

ExplicitLists == UNION {[1..n -> ExplicitCandidates] : n \in 0..MaxExplicit}

\* Python helpers ------------------------------------------------------------
UpperCase ==
    <<"A", "B", "C", "D", "E", "F", "G", "H", "I", "J", "K", "L", "M", "N", "O", "P",
      "Q", "R", "S", "T", "U", "V", "W", "X", "Y", "Z">>

LowerCase ==
    <<"a", "b", "c", "d", "e", "f", "g", "h", "i", "j", "k", "l", "m", "n", "o", "p",
      "q", "r", "s", "t", "u", "v", "w", "x", "y", "z">>

\* str.lower()
Lower(s) ==
    [i \in 1..Len(s) |->
        IF \E k \in 1..Len(UpperCase) : UpperCase[k] = s[i]
        THEN LowerCase[CHOOSE k \in 1..Len(UpperCase) : UpperCase[k] = s[i]]
        ELSE s[i]]

\* content[:n]
ExcerptOffByOne(content, n) == SubSeq(content, 1, Min(Len(content), n + 1))

Excerpt(content, n) == SubSeq(content, 1, Min(Len(content), n))

\* x in <sequence>
InSeq(x, seq) == \E i \in 1..Len(seq) : seq[i] = x

\* the components of a "/"-separated path
RECURSIVE SplitPath(_)
SplitPath(p) ==
    LET k == LastSlash(p)
    IN  IF k = 0 THEN <<p>>
        ELSE Append(SplitPath(SubSeq(p, 1, k - 1)), SubSeq(p, k + 1, Len(p)))

\* lines 215-216: os.walk never descends into a directory named ".git"
InsideGitDir(p) ==
    LET c == SplitPath(p)
    IN  \E i \in 1..(Len(c) - 1) : c[i] = DotGit

\* get_file_content (lines 192-205): [ok |-> FALSE] is None
None == [ok |-> FALSE, text |-> <<>>]

get_file_content(w, file_path) ==
    IF file_path \in DOMAIN w /\ IsRegularFile(w[file_path])
    THEN [ok |-> TRUE, text |-> TextOf(w[file_path])]
    ELSE None

\* `if content:` (None and "" are falsy)
Truthy(content) == content.ok /\ content.text # <<>>

\* os.path.isdir(repo_dir): the workspace root is the empty relative path
Root == <<>>

isdir(w) == w[Root] = "dir"

\* a directory tree with the files of w
Rooted(w) == (Root :> "dir") @@ w

\* get_repo_structure (lines 207-234): the keys of the dict, in insertion order
get_repo_structure(w, order) ==
    LET Kept(p) == w[p] # "absent" /\ ~InsideGitDir(p)
    IN  IF ~isdir(w) THEN <<>> ELSE SelectSeq(order, Kept)

\* lines 348-350: any(file_path.lower().endswith(ext) for ext in source_extensions)
HasSourceExtension(file_path) ==
    \E ext \in source_extensions : EndsWith(Lower(file_path), ext)

Section(kind, path, body) == [kind |-> kind, path |-> path, body |-> body]

\* lines 309-310
EmptyContext == [secs |-> <<>>, files_processed |-> {}]

\* lines 312-321: the explicit files, from entry i on
RECURSIVE ExplicitStep(_, _, _, _)
ExplicitStep(w, files, i, acc) ==
    IF i > Len(files) THEN acc
    ELSE LET file_path == files[i]
             content == get_file_content(w, file_path)
             next ==
                 IF file_path \in acc.files_processed THEN acc
                 ELSE IF Truthy(content)
                      THEN [secs |-> Append(acc.secs,
                                Section("file", file_path, Excerpt(content.text, explicit_cap))),
                            files_processed |-> acc.files_processed \cup {file_path}]
                      ELSE [acc EXCEPT !.secs =
                                Append(@, Section("placeholder", file_path, <<>>))]
         IN  ExplicitStep(w, files, i + 1, next)

\* lines 323-333: the first README name that is not processed and can be read
ReadmeStep(w, acc) ==
    IF readme_names[1] \in acc.files_processed \/ readme_names[2] \in acc.files_processed
    THEN acc
    ELSE LET found == {i \in 1..Len(readme_names) :
                          /\ readme_names[i] \notin acc.files_processed
                          /\ get_file_content(w, readme_names[i]).ok}
         IN  IF found = {} THEN acc
             ELSE LET i == CHOOSE k \in found : \A j \in found : k <= j
                      readme_name == readme_names[i]
                  IN  [secs |-> Append(acc.secs,
                          Section("file", readme_name,
                              Excerpt(get_file_content(w, readme_name).text, readme_cap))),
                       files_processed |-> acc.files_processed \cup {readme_name}]

\* needle in text
Contains(text, needle) ==
    \E i \in 1..(Len(text) - Len(needle) + 1) :
        SubSeq(text, i, i + Len(needle) - 1) = needle

\* the query strings given to process_code_for_llm
Queries == {<<>>, <<"a">>, <<"B">>}

\* lines 351-353 as they would run: a source file whose lower-cased path holds
\* the lower-cased query is inserted at the front of potential_files
add_source_files_by_relevance(potential, query, sources) ==
    LET Relevant(f) == Contains(Lower(f), Lower(query))
        Other(f) == ~Relevant(f)
        relevant == SelectSeq(sources, Relevant)
    IN  [i \in 1..Len(relevant) |-> relevant[Len(relevant) + 1 - i]]
            \o potential \o SelectSeq(sources, Other)

\* lines 348-355: lines 351-354 are comments, every source file is appended
add_source_files(potential, query, sources) == potential \o sources

\* lines 340-355: the priority files found in the structure, then every file
\* with a source extension, both without the files processed so far
potential_files(structure, query, files_processed) ==
    LET IsPriority(pf) == InSeq(pf, structure) /\ pf \notin files_processed
        IsSource(f) == f \notin files_processed /\ HasSourceExtension(f)
    IN  add_source_files(SelectSeq(priority_files, IsPriority), query,
                         SelectSeq(structure, IsSource))

\* lines 358-359
files_to_add(potential, files_processed) ==
    LET Fresh(f) == f \notin files_processed
        fresh == SelectSeq(potential, Fresh)
    IN  SubSeq(fresh, 1, Min(Len(fresh), max_additional_files))

\* lines 361-366: the loop over files_to_add, from entry i on
RECURSIVE AddStep(_, _, _, _)
AddStep(w, files, i, acc) ==
    IF i > Len(files) THEN acc
    ELSE LET file_path == files[i]
             content == get_file_content(w, file_path)
             next ==
                 IF Truthy(content)
                 THEN [secs |-> Append(acc.secs,
                           Section("file", file_path, Excerpt(content.text, source_cap))),
                       files_processed |-> acc.files_processed \cup {file_path}]
                 ELSE acc
         IN  AddStep(w, files, i + 1, next)

\* lines 368-372
ListingStepInclusive(structure, acc) ==
    IF Len(structure) <= structure_limit
    THEN [acc EXCEPT !.secs = Append(@,
             Section("listing", <<>>, SubSeq(structure, 1, Min(Len(structure), listing_limit))))]
    ELSE acc

ListingStep(structure, acc) ==
    IF Len(structure) < structure_limit
    THEN [acc EXCEPT !.secs = Append(@,
             Section("listing", <<>>, SubSeq(structure, 1, Min(Len(structure), listing_limit))))]
    ELSE acc

\* process_code_for_llm(repo_dir, query, context) with context["files"] = files
process_code_for_llm(w, order, query, files) ==
    LET a1 == ExplicitStep(w, files, 1, EmptyContext)
        a2 == ReadmeStep(w, a1)
        structure == get_repo_structure(w, order)
        potential == potential_files(structure, query, a2.files_processed)
        a3 == AddStep(w, files_to_add(potential, a2.files_processed), 1, a2)
    IN  ListingStep(structure, a3).secs

\* the length of the returned string --------------------------------------
\* the ceiling of the check that lines 376-378 hold as a comment
max_context_len == 30000

\* len("Repository Context:\n"), line 309
header_len == 20

\* len("\n--- File: ") + len(" ---\n```\n") + len("\n```\n"), line 318
file_frame_len == 25

\* len("\n--- File: ") + len(" (Could not be read or found) ---\n"), line 321
placeholder_frame_len == 45

\* len("\n--- Repository File Structure (Partial) ---\n")
\*     + len("\n(... and possibly more files)\n"), lines 370-372
listing_frame_len == 76

\* len("\n".join(paths))
RECURSIVE JoinedLen(_)
JoinedLen(paths) ==
    IF paths = <<>> THEN 0
    ELSE IF Len(paths) = 1 THEN Len(paths[1])
    ELSE Len(paths[1]) + 1 + JoinedLen(Tail(paths))

SectionLen(sec) ==
    CASE sec.kind = "file" -> file_frame_len + Len(sec.path) + Len(sec.body)
      [] sec.kind = "placeholder" -> placeholder_frame_len + Len(sec.path)
      [] sec.kind = "listing" -> listing_frame_len + JoinedLen(sec.body)

RECURSIVE SectionsLen(_)
SectionsLen(secs) ==
    IF secs = <<>> THEN 0 ELSE SectionLen(secs[1]) + SectionsLen(Tail(secs))

\* len(context_str)
RenderedLen(secs) == header_len + SectionsLen(secs)

\* the call
\* the query of the calls on the workspaces of Parts 2 and 3: the query is
\* read by no line of the function that runs (lines 351-353 are comments),
\* and CallBuild varies it
CtxQuery == <<"a">>

BuildContext ==
    /\ cpc = "ready"
    /\ out' = process_code_for_llm(ws, walk, CtxQuery, explicit)
    /\ cpc' = "built"
    /\ UNCHANGED <<ws, walk, explicit, helper>>
    /\ UNCHANGED reqVars

InitCtx ==
    /\ ReqInit
    /\ ws \in {Rooted(w) : w \in Workspaces}
    /\ walk \in WalkOrders
    /\ explicit \in ExplicitLists
    /\ out = <<>>
    /\ cpc = "ready"
    /\ helper = NoCall

NextCtx == BuildContext

SpecCtx == InitCtx /\ [][NextCtx]_vars

(***************************************************************************)
(* Part 3 (specification SpecLarge): process_code_for_llm on repositories  *)
(* with many source files m001.py, m002.py, ... next to package.json,      *)
(* main.py and README.md.                                                  *)
(***************************************************************************)
\* the explicit file list names the first 0..MaxLargeExplicit source files
MaxLargeExplicit == 2

\* the numbers of source files of the repositories
LargeSizes == {10, 11, 75, 199, 200, 500}

Digit == <<"0", "1", "2", "3", "4", "5", "6", "7", "8", "9">>

SourcePath(i) ==
    <<"m", Digit[((i \div 100) % 10) + 1], Digit[((i \div 10) % 10) + 1], Digit[(i % 10) + 1],
      ".", "p", "y">>

\* a repository: its number of source files, the position and kind of the one
\* source file that is empty or cannot be read (0: none), the kind of the
\* other source files, what package.json, main.py and README.md are, and
\* whether os.walk lists these three before or after the source files
LargeShapes ==
    [size : LargeSizes, bad : {0, 3, 10}, badKind : {"empty", "unreadable"},
     text : {"short", "long"}, package : {"absent", "short", "empty"},
     main : {"absent", "short"}, readme : {"absent", "short"}, first : BOOLEAN]

LargeWorkspace(s) ==
    [p \in {Root, P_package, P_main, P_readme} \cup {SourcePath(i) : i \in 1..s.size} |->
        CASE p = Root -> "dir"
          [] p = P_package -> s.package
          [] p = P_main -> s.main
          [] p = P_readme -> s.readme
          [] OTHER -> IF s.bad # 0 /\ p = SourcePath(s.bad) THEN s.badKind ELSE s.text]

LargeWalk(s) ==
    LET sources == [i \in 1..s.size |-> SourcePath(i)]
        others == <<P_package, P_main, P_readme>>
    IN  IF s.first THEN others \o sources ELSE sources \o others

InitLarge ==
    /\ ReqInit
    /\ \E s \in LargeShapes : ws = LargeWorkspace(s) /\ walk = LargeWalk(s)
    /\ \E k \in 0..MaxLargeExplicit : explicit = [i \in 1..k |-> SourcePath(i)]
    /\ out = <<>>
    /\ cpc = "ready"
    /\ helper = NoCall

SpecLarge == InitLarge /\ [][NextCtx]_vars

(***************************************************************************)
(* Part 4 (specification SpecHelpers): one call of get_repo_structure,     *)
(* get_file_content or generate_gemini_response.                           *)
(***************************************************************************)
P_a == <<"a", ".", "p", "y">>

\* a regular file named .git (the gitdir pointer of a submodule or worktree)
P_gitfile == <<"s", "u", "b", "/", ".", "g", "i", "t">>

\* a file of a directory named .git below the root
P_subconf == <<"s", "u", "b", "/", ".", "g", "i", "t", "/", "c", "o", "n", "f", "i", "g">>

P_subb == <<"s", "u", "b", "/", "b", ".", "p", "y">>

P_ignore == <<".", "g", "i", "t", "i", "g", "n", "o", "r", "e">>

P_xgit == <<"x", ".", "g", "i", "t", "/", "d", ".", "p", "y">>

\* the directory sub
P_sub == <<"s", "u", "b">>

P_missing == <<"n", "o", "p", "e">>

\* paths that os.path.join(repo_dir, file_path) places outside repo_dir: an
\* absolute path (join drops repo_dir) and a path that climbs over the root
\* into the workspace of another request
P_abs == <<"/", "e", "t", "c", "/", "p", "a", "s", "s", "w", "d">>

P_up ==
    <<".", ".", "/", "l", "l", "m", "r", "e", "p", "o", "_", "l", "i", "b", "_", "0",
      "/", "a", ".", "p", "y">>

GitFiles == {P_a, P_head, P_gitfile, P_subconf, P_subb, P_ignore, P_xgit}

GitOptions(p) ==
    CASE p = P_a -> {"absent", "empty", "short", "unreadable", "invalid"}
      [] p = P_ignore -> {"short"}
      [] OTHER -> {"absent", "short"}

\* the trees: sub/.git is a file or a directory, sub is a directory when it
\* holds something; a root that is missing or a regular file holds nothing
\* and no path can climb over it; the files outside the root are there in
\* every tree
GitTrees ==
    LET trees == {w \in [GitFiles -> {"absent", "empty", "short", "unreadable", "invalid"}] :
                      /\ \A p \in GitFiles : w[p] \in GitOptions(p)
                      /\ ~(w[P_gitfile] # "absent" /\ w[P_subconf] # "absent")}
        SubKind(w) == IF \E p \in {P_gitfile, P_subconf, P_subb} : w[p] # "absent"
                      THEN "dir" ELSE "absent"
        Nothing(rootKind) == (Root :> rootKind) @@ (P_abs :> "outside")
                                 @@ [p \in GitFiles \cup {P_sub, P_up} |-> "absent"]
        Outside == (P_abs :> "outside") @@ (P_up :> "outside")
    IN  {Rooted(Outside @@ (P_sub :> SubKind(w)) @@ w) : w \in trees}
            \cup {Nothing("absent"), Nothing("short")}

GitWalkOrders ==
    {<<P_ignore, P_a, P_head, P_gitfile, P_subb, P_subconf, P_xgit>>,
     <<P_a, P_ignore, P_xgit, P_subb, P_gitfile, P_subconf, P_head>>}

\* os.path.isdir and os.walk (whose onerror is None) do not raise for a root
\* that is missing or not a directory
IndexRaisesOnMissingRoot(w) == ~isdir(w)

IndexRaises(w) == FALSE

\* lines 209-234
CallIndex ==
    /\ helper.fn = "none"
    /\ helper' = [fn |-> "get_repo_structure", arg |-> Root,
                  raised |-> IF IndexRaises(ws) THEN "OSError" ELSE "no",
                  value |-> IF IndexRaises(ws) THEN <<>> ELSE get_repo_structure(ws, walk)]
    /\ UNCHANGED <<ws, walk, explicit, out, cpc>>
    /\ UNCHANGED reqVars

\* lines 192-205: exists and isfile do not raise, `except Exception` catches
\* what open and read raise
CallRead(file_path) ==
    /\ helper.fn = "none"
    /\ helper' = [fn |-> "get_file_content", arg |-> file_path, raised |-> "no",
                  value |-> get_file_content(ws, file_path)]
    /\ UNCHANGED <<ws, walk, explicit, out, cpc>>
    /\ UNCHANGED reqVars

\* what model.generate_content does: it raises (failed), or it returns a
\* response with or without parts and with or without a block reason
GatewayResponses ==
    [failed : BOOLEAN, parts : BOOLEAN, block_reason : {"none", "SAFETY", "OTHER"}]

\* lines 250-254: the blocked response is returned as a notice naming the reason
BlockedRaises(block_reason) == [raised |-> "err503", value |-> <<>>]

BlockedOutcome(block_reason) == [raised |-> "no", value |-> <<"blocked", block_reason>>]

\* generate_gemini_response (lines 236-269)
generate_gemini_response(g) ==
    IF g.failed THEN [raised |-> "err503", value |-> <<>>]
    ELSE IF g.parts THEN [raised |-> "no", value |-> <<"text", "generated">>]
    ELSE IF g.block_reason # "none" THEN BlockedOutcome(g.block_reason)
    ELSE [raised |-> "no", value |-> <<"empty", "none">>]

CallGenerate(g) ==
    /\ helper.fn = "none"
    /\ helper' = [fn |-> "generate_gemini_response", arg |-> g,
                  raised |-> generate_gemini_response(g).raised,
                  value |-> generate_gemini_response(g).value]
    /\ UNCHANGED <<ws, walk, explicit, out, cpc>>
    /\ UNCHANGED reqVars

\* lines 175 and 177: the two texts looked for in str(e)
N_auth ==
    <<"A", "u", "t", "h", "e", "n", "t", "i", "c", "a", "t", "i", "o", "n",
      " ", "f", "a", "i", "l", "e", "d">>

N_branch ==
    <<"c", "o", "u", "l", "d", " ", "n", "o", "t", " ", "f", "i", "n", "d",
      " ", "r", "e", "m", "o", "t", "e", " ", "b", "r", "a", "n", "c", "h">>

\* what git writes on stderr (str(e) holds it):
\* an authentication failure
E_auth ==
    <<"f", "a", "t", "a", "l", ":", " ", "A", "u", "t", "h", "e", "n", "t",
      "i", "c", "a", "t", "i", "o", "n", " ", "f", "a", "i", "l", "e", "d",
      " ", "f", "o", "r", " ", "'", "u", "'">>

\* a missing branch, as git 2.39 words it
E_branch ==
    <<"w", "a", "r", "n", "i", "n", "g", ":", " ", "C", "o", "u", "l", "d",
      " ", "n", "o", "t", " ", "f", "i", "n", "d", " ", "r", "e", "m", "o",
      "t", "e", " ", "b", "r", "a", "n", "c", "h", " ", "b", " ", "t", "o",
      " ", "c", "l", "o", "n", "e", ".">>

\* a missing branch, worded as line 177 expects it
E_branch_lower ==
    <<"c", "o", "u", "l", "d", " ", "n", "o", "t", " ", "f", "i", "n", "d",
      " ", "r", "e", "m", "o", "t", "e", " ", "b", "r", "a", "n", "c", "h",
      " ", "b">>

\* a missing branch of a repository named after the other text
E_branch_both ==
    <<"c", "o", "u", "l", "d", " ", "n", "o", "t", " ", "f", "i", "n", "d",
      " ", "r", "e", "m", "o", "t", "e", " ", "b", "r", "a", "n", "c", "h",
      " ", "b", " ", "i", "n", " ", "u", "/", "A", "u", "t", "h", "e", "n",
      "t", "i", "c", "a", "t", "i", "o", "n", " ", "f", "a", "i", "l", "e",
      "d">>

\* another failure
E_other ==
    <<"f", "a", "t", "a", "l", ":", " ", "r", "e", "p", "o", "s", "i", "t",
      "o", "r", "y", " ", "'", "u", "'", " ", "n", "o", "t", " ", "f", "o",
      "u", "n", "d">>

\* the failed clones: what went wrong and what str(e) says
FailedClones ==
    {[cause |-> "authentication", text |-> E_auth],
     [cause |-> "branch", text |-> E_branch],
     [cause |-> "branch", text |-> E_branch_lower],
     [cause |-> "branch", text |-> E_branch_both],
     [cause |-> "other", text |-> E_other]}

\* the failure clone_repository catches: lines 175 and 177 test str(e)
FailureOf(type, text) ==
    [type |-> type, auth |-> Contains(text, N_auth), branch |-> Contains(text, N_branch)]

\* lines 172-189: the except clauses of clone_repository classify the failure
CallClassify(type, c) ==
    /\ helper.fn = "none"
    /\ helper' = [fn |-> "clone_repository", arg |-> [type |-> type, clone |-> c],
                  raised |-> CloneError(FailureOf(type, c.text)), value |-> <<>>]
    /\ UNCHANGED <<ws, walk, explicit, out, cpc>>
    /\ UNCHANGED reqVars

\* the URLs given to clone_repository: those of the requests and one that
\* names a host only
NamedUrls == Urls \cup {"host"}

\* lines 136-139: clone_repository derives the name or raises HTTP 400
CallRepoName(u) ==
    /\ helper.fn = "none"
    /\ helper' = [fn |-> "repo_name", arg |-> UrlText(u),
                  raised |-> IF RepoName(UrlText(u)) = NoMatch THEN "err400_url" ELSE "no",
                  value |-> RepoName(UrlText(u))]
    /\ UNCHANGED <<ws, walk, explicit, out, cpc>>
    /\ UNCHANGED reqVars

\* what shutil.rmtree hands to onerror: whether os.access(path, os.W_OK)
\* holds, what os.chmod does and what the repeated func(path) does
EntryErrors ==
    [writable : BOOLEAN, chmod : {"ok", "PermissionError", "FileNotFoundError"},
     retry : {"ok", "PermissionError"}]

\* onerror (lines 73-102): "no" when it returns, else the exception that
\* leaves it (and with it shutil.rmtree); the value tells whether the entry
\* is gone
onerror(e) ==
    IF ~e.writable
    THEN IF e.chmod # "ok" THEN [raised |-> e.chmod, value |-> "entry_left"]
         ELSE IF e.retry = "ok" THEN [raised |-> "no", value |-> "entry_removed"]
         ELSE [raised |-> "no", value |-> "entry_left"]
    ELSE [raised |-> "no", value |-> "entry_left"]

CallOnerror(e) ==
    /\ helper.fn = "none"
    /\ helper' = [fn |-> "onerror", arg |-> e,
                  raised |-> onerror(e).raised, value |-> onerror(e).value]
    /\ UNCHANGED <<ws, walk, explicit, out, cpc>>
    /\ UNCHANGED reqVars

\* s.startswith(prefix)
StartsWith(s, prefix) == Len(s) >= Len(prefix) /\ SubSeq(s, 1, Len(prefix)) = prefix

S_https ==
    <<"h", "t", "t", "p", "s", ":", "/", "/">>

S_http ==
    <<"h", "t", "t", "p", ":", "/", "/">>

H_github ==
    <<"g", "i", "t", "h", "u", "b", ".", "c", "o", "m">>

\* the URLs given with a token: GitHub over https and http, GitHub over
\* SSH, another host, and another host with "github.com" in the path
U_https ==
    <<"h", "t", "t", "p", "s", ":", "/", "/", "g", "i", "t", "h", "u", "b",
      ".", "c", "o", "m", "/", "a", "c", "m", "e", "/", "a", "p", "p">>

U_http ==
    <<"h", "t", "t", "p", ":", "/", "/", "g", "i", "t", "h", "u", "b", ".",
      "c", "o", "m", "/", "a", "c", "m", "e", "/", "a", "p", "p">>

U_ssh ==
    <<"g", "i", "t", "@", "g", "i", "t", "h", "u", "b", ".", "c", "o", "m",
      ":", "a", "c", "m", "e", "/", "a", "p", "p", ".", "g", "i", "t">>

U_gitlab ==
    <<"h", "t", "t", "p", "s", ":", "/", "/", "g", "i", "t", "l", "a", "b",
      ".", "c", "o", "m", "/", "a", "c", "m", "e", "/", "a", "p", "p">>

U_mirror ==
    <<"h", "t", "t", "p", "s", ":", "/", "/", "m", "i", "r", "r", "o", "r",
      ".", "i", "o", "/", "g", "i", "t", "h", "u", "b", ".", "c", "o", "m",
      "/", "a", "p", "p">>

TokenUrls == {U_https, U_http, U_ssh, U_gitlab, U_mirror}

\* access_token: None, the empty string or a token
TokNone == <<"None">>

Tokens == {TokNone, <<>>, <<"t", "0", "k">>}

\* lines 153-164: the URL handed to git.Repo.clone_from
auth_url(repo_url, access_token) ==
    IF access_token # TokNone /\ access_token # <<>>
    THEN IF Contains(repo_url, H_github)
         THEN IF StartsWith(repo_url, S_https)
              THEN S_https \o access_token \o <<"@">> \o SubSeq(repo_url, 9, Len(repo_url))
              ELSE IF StartsWith(repo_url, S_http)
                   THEN S_http \o access_token \o <<"@">> \o SubSeq(repo_url, 8, Len(repo_url))
                   ELSE repo_url
         ELSE repo_url
    ELSE repo_url

CallAuthUrl(repo_url, access_token) ==
    /\ helper.fn = "none"
    /\ helper' = [fn |-> "auth_url", arg |-> [repo_url |-> repo_url, access_token |-> access_token],
                  raised |-> "no", value |-> auth_url(repo_url, access_token)]
    /\ UNCHANGED <<ws, walk, explicit, out, cpc>>
    /\ UNCHANGED reqVars

\* context["files"] of the calls made on the trees
BuildLists == {<<>>, <<P_subb>>}

\* lines 307-380
CallBuild(query, files) ==
    /\ helper.fn = "none"
    /\ helper' = [fn |-> "process_code_for_llm", arg |-> [query |-> query, files |-> files],
                  raised |-> "no", value |-> process_code_for_llm(ws, walk, query, files)]
    /\ UNCHANGED <<ws, walk, explicit, out, cpc>>
    /\ UNCHANGED reqVars

InitHelpers ==
    /\ ReqInit
    /\ ws \in GitTrees
    /\ walk \in GitWalkOrders
    /\ explicit = <<>>
    /\ out = <<>>
    /\ cpc = "off"
    /\ helper = NoCall

NextHelpers ==
    \/ CallIndex
    \/ \E file_path \in GitFiles \cup {P_sub, P_missing, Root, P_abs, P_up} : CallRead(file_path)
    \/ \E g \in GatewayResponses : CallGenerate(g)
    \/ \E type \in {"GitCommandError", "Exception"}, c \in FailedClones : CallClassify(type, c)
    \/ \E u \in NamedUrls : CallRepoName(u)
    \/ \E e \in EntryErrors : CallOnerror(e)
    \/ \E repo_url \in TokenUrls, access_token \in Tokens : CallAuthUrl(repo_url, access_token)
    \/ \E query \in Queries, files \in BuildLists : CallBuild(query, files)

SpecHelpers == InitHelpers /\ [][NextHelpers]_vars

(***************************************************************************)
(* Properties of the request life cycle.                                   *)
(***************************************************************************)
InFdd(q) == q.pc \in {"fdd", "recheck"}

InFlight(q) == q.pc \notin {"idle", "done"}

\* request r takes a step
Steps(r) == req'[r] # req[r]

\* the running call of force_delete_directory of request r ends with this step
FddReturns(r) == InFdd(req[r]) /\ ~InFdd(req'[r])

\* request r completes with this step
Completes(r) == req[r].pc # "done" /\ req'[r].pc = "done"

CloneErrors ==
    {"err400_authentication", "err400_branch", "err400_unspecified", "err500_clone"}

\* C1: on every exit path after the clone step created the destination
\* directory (normal return, HTTPException, any other failure, interrupt), the
\* request called force_delete_directory on the workspace before it completes,
\* and at completion the path is absent or the call returned False.
C1_ReclaimOnEveryExit ==
    [][\A r \in Requests :
         (Completes(r) /\ req'[r].created) =>
            /\ req'[r].site \in {"fail", "final"}
            /\ req'[r].ret \in {"True", "False"}
            /\ (req'[r].dir \notin fs' \/ req'[r].ret = "False")]_vars

\* C2: two requests in flight at the same time never have the same workspace
\* path, and the directory a request cloned stays in place while the request
\* uses it (no other request deletes it).
C2_IndependentWorkspaces ==
    \A r1 \in Requests :
        /\ (req[r1].pc = "work" => req[r1].dir \in fs)
        /\ \A r2 \in Requests \ {r1} :
              (InFlight(req[r1]) /\ InFlight(req[r2])) => req[r1].dir # req[r2].dir

\* C3: when the clone fails with an exception, clone_repository calls
\* force_delete_directory on the destination before it raises; the error it
\* raises is the one it built before the call, whatever the call returned; and
\* when the call returned True the destination does not exist when the error
\* is raised.
C3_CloneFailureReclaims ==
    [][\A r \in Requests :
         /\ (/\ req[r].pc \in {"clone", "cloning"}
             /\ req'[r].pc \notin {"clone", "cloning", "work"}
             /\ req'[r].result # "interrupt") =>
                /\ req'[r].pc = "fdd"
                /\ req'[r].site = "fail"
                /\ req'[r].err \in CloneErrors
         /\ (Completes(r) /\ req'[r].result \in CloneErrors) =>
                /\ InFdd(req[r])
                /\ req[r].site = "fail"
                /\ req'[r].result = req[r].err
                /\ req'[r].ret \in {"True", "False"}
                /\ (req'[r].ret = "True" => req[r].dir \notin fs')]_vars

C3_Witness ==
    \E r \in Requests :
        /\ req[r].pc = "done"
        /\ req[r].result = "err400_branch"
        /\ req[r].created
        /\ req[r].site = "fail"
        /\ req[r].ret = "True"
        /\ req[r].dir \notin fs

\* C4: every step force_delete_directory takes while the path is absent
\* deletes nothing, waits for nothing and leaves the filesystem unchanged, and
\* when the call ends on an absent path it returns True.
C4_AbsentPathIdempotent ==
    [][\A r \in Requests :
         (InFdd(req[r]) /\ Steps(r) /\ req[r].dir \notin fs) =>
            /\ fs' = fs
            /\ req'[r].deletes <= req[r].deletes
            /\ req'[r].sleeps <= req[r].sleeps
            /\ (FddReturns(r) => req'[r].ret = "True")]_vars

\* the clone failed before the destination was created, nothing else ran, and
\* the reclaim of the absent path returned True
C4_Witness ==
    \E r \in Requests :
        /\ req[r].pc = "done"
        /\ req[r].site = "fail"
        /\ ~req[r].created
        /\ req[r].ret = "True"
        /\ fs = {}
        /\ \A r2 \in Requests \ {r} : req[r2].pc = "idle"

\* C5: force_delete_directory returns False only when all max_retries
\* iterations are done and the path exists at the final check, and it returns
\* True only when the path did not exist at the check it made last.
C5_ReturnTellsTheTruth ==
    [][\A r \in Requests :
         FddReturns(r) =>
            /\ req'[r].ret \in {"True", "False"}
            /\ (req'[r].ret = "False" =>
                   req[r].pc = "fdd" /\ req[r].attempt = max_retries /\ req[r].dir \in fs)
            /\ (req'[r].ret = "True" => req[r].dir \notin fs)]_vars

C5_Witness ==
    \E r \in Requests :
        /\ req[r].pc = "done"
        /\ req[r].site = "final"
        /\ req[r].ret = "False"
        /\ req[r].dir \in fs

\* C6: no exception leaves force_delete_directory, whatever rmtree raised, and
\* the final reclaim leaves the request's response or error as it was,
\* whether it returns True or False.
C6_ReclaimFailureNonFatal ==
    [][\A r \in Requests :
         (InFdd(req[r]) /\ Steps(r)) =>
            /\ req'[r].ret # "raised"
            /\ (req[r].site = "final" => req'[r].result = req[r].result)]_vars

\* the final reclaim failed and the caller still gets the response
C6_Witness ==
    \E r \in Requests :
        /\ req[r].pc = "done"
        /\ req[r].site = "final"
        /\ req[r].ret = "False"
        /\ req[r].result = "ok"

(***************************************************************************)
(* Properties of process_code_for_llm.                                     *)
(***************************************************************************)
Built == cpc = "built"

\* a is a prefix of b
IsPrefix(a, b) == Len(a) <= Len(b) /\ SubSeq(b, 1, Len(a)) = a

\* the first position of x in seq
Pos(x, seq) == CHOOSE i \in 1..Len(seq) : seq[i] = x /\ \A j \in 1..(i - 1) : seq[j] # x

\* the group of a section, read off its label: 1 explicitly requested file,
\* 2 README variant, 3 priority manifest/entry-point file, 4 other source
\* file, 5 the path listing
Group(sec) ==
    IF sec.kind = "listing" THEN 5
    ELSE IF InSeq(sec.path, explicit) THEN 1
    ELSE IF InSeq(sec.path, readme_names) THEN 2
    ELSE IF InSeq(sec.path, priority_files) THEN 3
    ELSE 4

\* the excerpt cap of a file section, by its group
CapOf(sec) ==
    CASE Group(sec) = 1 -> explicit_cap
      [] Group(sec) = 2 -> readme_cap
      [] OTHER -> source_cap

\* C7: the output holds at most one file section per path.
C7_NoPathTwice ==
    Built =>
        \A i, j \in 1..Len(out) :
            (i < j /\ out[i].kind = "file" /\ out[j].kind = "file")
                => out[i].path # out[j].path

\* C8: every entry of the explicit file list has a section: the excerpt of
\* the file's text when the file can be read, otherwise a placeholder naming
\* the path.
C8_ExplicitAlwaysIncluded ==
    Built =>
        \A i \in 1..Len(explicit) :
            LET content == get_file_content(ws, explicit[i])
            IN  IF content.ok
                THEN \E k \in 1..Len(out) :
                        /\ out[k].kind = "file"
                        /\ out[k].path = explicit[i]
                        /\ out[k].body = Excerpt(content.text, explicit_cap)
                ELSE \E k \in 1..Len(out) :
                        out[k].kind = "placeholder" /\ out[k].path = explicit[i]

\* C9: every excerpt in the output is a prefix of the file's text and has at
\* most 5,000 characters for an explicitly requested file, 3,000 for a README
\* variant and 2,500 for any other file.
C9_ExcerptCaps ==
    Built =>
        \A k \in 1..Len(out) :
            out[k].kind = "file" =>
                /\ IsPrefix(out[k].body, get_file_content(ws, out[k].path).text)
                /\ Len(out[k].body) <= CapOf(out[k])

\* an explicit file, the README and a source file, each cut at its cap
C9_Witness ==
    /\ Built
    /\ \E a, b, c \in 1..Len(out) :
          /\ out[a].path = P_main /\ InSeq(P_main, explicit)
          /\ Len(out[a].body) = explicit_cap /\ Len(TextOf(ws[P_main])) > explicit_cap
          /\ out[b].path = P_readme /\ ~InSeq(P_readme, explicit)
          /\ Len(out[b].body) = readme_cap /\ Len(TextOf(ws[P_readme])) > readme_cap
          /\ out[c].path = P_util
          /\ Len(out[c].body) = source_cap /\ Len(TextOf(ws[P_util])) > source_cap

\* C10: the sections appear group by group (explicit files, README variant,
\* priority files, remaining source files, listing); the explicit files in the
\* order given, the priority files in the order of the priority list, the
\* remaining source files in index order.
C10_SectionOrder ==
    Built =>
        \A i, j \in 1..Len(out) :
            i < j =>
                /\ Group(out[i]) <= Group(out[j])
                /\ (Group(out[i]) = 1 /\ Group(out[j]) = 1) =>
                       Pos(out[i].path, explicit) <= Pos(out[j].path, explicit)
                /\ (Group(out[i]) = 3 /\ Group(out[j]) = 3) =>
                       Pos(out[i].path, priority_files) <= Pos(out[j].path, priority_files)
                /\ (Group(out[i]) = 4 /\ Group(out[j]) = 4) =>
                       Pos(out[i].path, get_repo_structure(ws, walk))
                           <= Pos(out[j].path, get_repo_structure(ws, walk))

\* what the explicit step and the README step leave behind
AfterReadme == ReadmeStep(ws, ExplicitStep(ws, explicit, 1, EmptyContext))

\* the file sections written after the README step
AddedPaths ==
    LET IsFile(sec) == sec.kind = "file"
        added == SelectSeq(SubSeq(out, Len(AfterReadme.secs) + 1, Len(out)), IsFile)
    IN  [k \in 1..Len(added) |-> added[k].path]

\* the indexed source files whose text can be read and is not empty
ReadableSources ==
    LET Readable(f) == HasSourceExtension(f) /\ Truthy(get_file_content(ws, f))
    IN  SelectSeq(get_repo_structure(ws, walk), Readable)

\* C11: every present (and readable) priority file that was not included
\* before is included; at most 10 other source files are added; and with no
\* explicit file, no README and no priority file, the files added are exactly
\* the first 10 readable source files in index order.
C11_AdditionalFiles ==
    Built =>
        LET structure == get_repo_structure(ws, walk)
            NoPriority == \A i \in 1..Len(priority_files) : ~InSeq(priority_files[i], structure)
        IN  /\ \A i \in 1..Len(priority_files) :
                  ( /\ InSeq(priority_files[i], structure)
                    /\ priority_files[i] \notin AfterReadme.files_processed
                    /\ Truthy(get_file_content(ws, priority_files[i])) )
                  => InSeq(priority_files[i], AddedPaths)
            /\ Cardinality({k \in 1..Len(AddedPaths) : ~InSeq(AddedPaths[k], priority_files)})
                   <= max_additional_files
            /\ (explicit = <<>> /\ AfterReadme.secs = <<>> /\ NoPriority)
                   => AddedPaths = SubSeq(ReadableSources, 1,
                                       Min(Len(ReadableSources), max_additional_files))

\* the positions of the path listings in the output
Listings == {k \in 1..Len(out) : out[k].kind = "listing"}

\* C12: the path listing is appended if and only if fewer than 200 paths are
\* indexed; it is then the last section and holds the first min(75, index
\* size) indexed paths in index order.
C12_ListingRule ==
    Built =>
        LET structure == get_repo_structure(ws, walk)
        IN  IF Len(structure) < structure_limit
            THEN /\ Listings = {Len(out)}
                 /\ out[Len(out)].body =
                        SubSeq(structure, 1, Min(listing_limit, Len(structure)))
            ELSE Listings = {}

\* 199 indexed paths: the listing is there and holds 75 of them
C12_Witness ==
    /\ Built
    /\ Len(get_repo_structure(ws, walk)) = structure_limit - 1
    /\ Listings # {}
    /\ Len(out[Len(out)].body) = listing_limit

(***************************************************************************)
(* Properties of the helpers.                                              *)
(***************************************************************************)
Indexed == helper.fn = "get_repo_structure"

\* p has a component equal to ".git"
HasGitComponent(p) ==
    LET c == SplitPath(p)
    IN  \E i \in 1..Len(c) : c[i] = DotGit

\* C13: no key of the index has a path component equal to ".git", whether
\* that is a directory or a regular file; the keys are unique, relative to the
\* root and free of backslashes; every regular file with no ".git" component
\* has exactly one key.
C13_IndexKeys ==
    Indexed =>
        LET keys == helper.value
        IN  /\ \A k \in 1..Len(keys) : ~HasGitComponent(keys[k])
            /\ \A i, j \in 1..Len(keys) : i < j => keys[i] # keys[j]
            /\ \A k \in 1..Len(keys) :
                   /\ keys[k] # <<>>
                   /\ keys[k][1] # "/"
                   /\ \A i \in 1..Len(keys[k]) : keys[k][i] # "\\"
            /\ isdir(ws) =>
                   \A p \in GitFiles :
                       (ws[p] # "absent" /\ ~HasGitComponent(p))
                           => Cardinality({k \in 1..Len(keys) : keys[k] = p}) = 1

\* C14: for a root that does not exist or is not a directory,
\* get_repo_structure returns the empty index and does not raise.
C14_MissingRootEmptyIndex ==
    (Indexed /\ ~isdir(ws)) => (helper.raised = "no" /\ helper.value = <<>>)

\* the root is missing and the call returned the empty index
C14_Witness ==
    /\ Indexed
    /\ ws[Root] = "absent"
    /\ helper.raised = "no"
    /\ helper.value = <<>>

\* C15: get_file_content never raises, and returns None for a path that does
\* not exist, for a directory and for a file holding bytes that are not valid
\* in the text encoding.
C15_AbsentValue ==
    helper.fn = "get_file_content" =>
        /\ helper.raised = "no"
        /\ (helper.arg \notin DOMAIN ws \/ ws[helper.arg] \in {"absent", "dir", "invalid"})
               => helper.value = None

\* C18: generate_gemini_response returns generated text as it is, returns a
\* notice holding the block reason for a blocked response and a notice for an
\* empty response; it raises only when the gateway call failed, and then the
\* 503 error.
C18_GatewayOutcomes ==
    helper.fn = "generate_gemini_response" =>
        LET g == helper.arg
        IN  IF g.failed
            THEN helper.raised = "err503"
            ELSE /\ helper.raised = "no"
                 /\ g.parts => helper.value = <<"text", "generated">>
                 /\ (~g.parts /\ g.block_reason # "none")
                        => helper.value = <<"blocked", g.block_reason>>
                 /\ (~g.parts /\ g.block_reason = "none")
                        => helper.value = <<"empty", "none">>

\* a blocked response came back as a notice
C18_Witness ==
    /\ helper.fn = "generate_gemini_response"
    /\ ~helper.arg.failed /\ ~helper.arg.parts /\ helper.arg.block_reason = "SAFETY"
    /\ helper.raised = "no"
    /\ helper.value = <<"blocked", "SAFETY">>

\* C16: a clone failure carries exactly one of the causes authentication,
\* branch-not-found and unspecified; the clone of a branch that the remote
\* does not have is reported as branch-not-found, also when the failure text
\* mentions authentication.
C16_CloneFailureCause ==
    (helper.fn = "clone_repository" /\ helper.arg.type = "GitCommandError") =>
        /\ helper.raised \in {"err400_authentication", "err400_branch", "err400_unspecified"}
        /\ helper.arg.clone.cause = "branch" => helper.raised = "err400_branch"

\* the last segment of the path of a URL scheme://host/path, without a
\* trailing ".git"; NoMatch when the URL has no path or the path ends in "/"
LastPathSegment(url) ==
    LET Sep == <<":", "/", "/">>
        i == CHOOSE k \in 1..Len(url) : SubSeq(url, k, k + 2) = Sep
        rest == SubSeq(url, i + 3, Len(url))
        k == LastSlash(rest)
        last == SubSeq(rest, k + 1, Len(rest))
    IN  IF k = 0 \/ last = <<>> THEN NoMatch
        ELSE IF EndsWith(last, DotGit) THEN SubSeq(last, 1, Len(last) - Len(DotGit))
        ELSE last

\* C17: the short name is the last path segment of the URL without a trailing
\* ".git", and clone_repository fails with the invalid-URL error exactly when
\* the URL has no such segment (no repository path, or a path ending in "/").
C17_ShortName ==
    helper.fn = "repo_name" =>
        /\ helper.raised = "err400_url" <=> LastPathSegment(helper.arg) = NoMatch
        /\ helper.raised = "no" => helper.value = LastPathSegment(helper.arg)

(***************************************************************************)
(* Properties of the endpoints' error handling.                            *)
(***************************************************************************)
\* the structured errors (HTTPException with a status and a detail)
StructuredErrors ==
    {"err400_url", "err400_authentication", "err400_branch", "err400_unspecified",
     "err500_clone", "err500_setup", "err503", "err404", "err500_unexpected"}

\* C19 as stated: whatever is raised in the pipeline, the caller of an
\* endpoint gets a response or a structured error.
C19_NoRawException ==
    \A r \in Requests :
        req[r].pc = "done" => req[r].result \in StructuredErrors \cup {"ok"}

\* C19, amended: the caller gets a response, a structured error, or an
\* interrupt (a BaseException that is not an Exception); an Exception never
\* reaches the caller raw, and the structured error a helper raised reaches
\* the caller unchanged through the except clauses and the finally block.
C19_ExceptionsConverted ==
    [][\A r \in Requests :
          Completes(r) =>
              /\ req'[r].result \in StructuredErrors \cup {"ok", "interrupt"}
              /\ req[r].site = "fail" => req'[r].result = req[r].err
              /\ req[r].site = "final" => req'[r].result = req[r].result]_vars

\* one request ended with the HTTP 500 made of an unexpected exception, the
\* other with the 503 error of the gateway, after their finally blocks ran
C19_Witness ==
    \E r1, r2 \in Requests :
        /\ req[r1].pc = "done" /\ req[r1].result = "err500_unexpected" /\ req[r1].site = "final"
        /\ req[r2].pc = "done" /\ req[r2].result = "err503" /\ req[r2].site = "final"

\* C20: the length of the text process_code_for_llm returns stays under a
\* fixed ceiling (the 30,000 characters of lines 376-378), however many
\* explicit files are named and however large the repository is.
C20_LengthCeiling ==
    Built => RenderedLen(out) <= max_context_len

(***************************************************************************)
(* Properties of the reclaim's error handler and retry loop.               *)
(***************************************************************************)
\* C21: for an entry that is not writable the handler clears the restriction
\* and repeats the delete of that entry once; when the repeated delete fails,
\* or when the failure was not a permission problem, the failure leaves the
\* handler (and so the whole-tree delete).
C21_HandlerPropagates ==
    helper.fn = "onerror" =>
        LET e == helper.arg
        IN  /\ (~e.writable /\ e.chmod = "ok" /\ e.retry = "ok")
                   => (helper.raised = "no" /\ helper.value = "entry_removed")
            /\ (~e.writable /\ e.chmod = "ok" /\ e.retry # "ok") => helper.raised # "no"
            /\ e.writable => helper.raised # "no"

\* an attempt of request r (one rmtree call) ends in this step with the path
\* still in place: rmtree raised, or it returned and the path is still there
AttemptFailed(r) ==
    /\ InFdd(req[r])
    /\ req'[r].pc = "fdd"
    /\ req'[r].attempt = req[r].attempt + 1
    /\ (req[r].pc = "recheck" \/ req'[r].deletes = req[r].deletes + 1)

\* C22: force_delete_directory makes at most max_retries whole-tree delete
\* attempts, stops at the first attempt after which the path is absent, waits
\* the backoff delay after every attempt that leaves the path in place and is
\* followed by another attempt, and does not wait after the last attempt.
C22_BackoffBetweenAttempts ==
    [][\A r \in Requests :
          /\ req'[r].deletes <= max_retries
          /\ (Steps(r) /\ req[r].pc = "recheck" /\ req[r].dir \notin fs) => FddReturns(r)
          /\ AttemptFailed(r) =>
                 IF req'[r].attempt < max_retries
                 THEN req'[r].sleeps = req[r].sleeps + 1
                 ELSE req'[r].sleeps = req[r].sleeps]_vars

(***************************************************************************)
(* Properties of clone_repository.                                         *)
(***************************************************************************)
\* C23: when the destination path exists, force_delete_directory runs on it
\* before any clone attempt; when it returns False the call fails with the
\* setup error and no clone is attempted; a clone is started only into a
\* path that did not exist at the check.
C23_CleanBeforeClone ==
    [][\A r \in Requests :
          /\ (Steps(r) /\ req[r].pc = "idle" /\ req'[r].dir # NoDir /\ req'[r].dir \in fs)
                 => (req'[r].pc = "fdd" /\ req'[r].site = "pre")
          /\ (FddReturns(r) /\ req[r].site = "pre" /\ req'[r].ret = "False")
                 => (req'[r].pc = "done" /\ req'[r].result = "err500_setup")
          /\ (req[r].pc # "clone" /\ req'[r].pc = "clone") => req'[r].dir \notin fs
          /\ (req[r].pc # "cloning" /\ req'[r].pc = "cloning") => req[r].pc = "clone"]_vars

\* the path existed, the reclaim returned True and the clone was started
C23_Witness ==
    \E r \in Requests :
        req[r].pc = "cloning" /\ req[r].site = "pre" /\ req[r].ret = "True"

\* the host of a URL scheme://host/path (<<>> for a URL without "://")
HostOf(url) ==
    LET Sep == <<":", "/", "/">>
        starts == {k \in 1..(Len(url) - 2) : SubSeq(url, k, k + 2) = Sep}
        i == CHOOSE k \in starts : \A j \in starts : k <= j
        rest == SubSeq(url, i + 3, Len(url))
        slashes == {k \in 1..Len(rest) : rest[k] = "/"}
        end == IF slashes = {} THEN Len(rest)
               ELSE (CHOOSE k \in slashes : \A j \in slashes : k <= j) - 1
    IN  IF starts = {} THEN <<>> ELSE SubSeq(rest, 1, end)

\* C24: the URL handed to the clone has the credential and "@" right after
\* the scheme exactly when a credential is given, the host of the URL is
\* github.com and the URL starts with https:// or http://; otherwise it is
\* the input URL.
C24_CredentialRewrite ==
    helper.fn = "auth_url" =>
        LET u == helper.arg.repo_url
            t == helper.arg.access_token
            scheme == IF StartsWith(u, S_https) THEN S_https ELSE S_http
            rewrite == /\ t # TokNone /\ t # <<>>
                       /\ HostOf(u) = H_github
                       /\ (StartsWith(u, S_https) \/ StartsWith(u, S_http))
        IN  helper.value =
                IF rewrite
                THEN scheme \o t \o <<"@">> \o SubSeq(u, Len(scheme) + 1, Len(u))
                ELSE u

\* C25: the README step adds at most one README section, right after the
\* sections of the explicit files: the first name of readme_names that can be
\* read and was not included before, also when another README variant was
\* explicitly included; it adds nothing when there is no such name.
C25_FirstReadableReadme ==
    Built =>
        LET a1 == ExplicitStep(ws, explicit, 1, EmptyContext)
            n == Len(a1.secs)
            found == {i \in 1..Len(readme_names) :
                         /\ readme_names[i] \notin a1.files_processed
                         /\ get_file_content(ws, readme_names[i]).ok}
            after == {k \in (n + 1)..Len(out) :
                         out[k].kind = "file" /\ InSeq(out[k].path, readme_names)}
        IN  /\ Cardinality(after) <= 1
            /\ IF found = {} THEN after = {}
               ELSE LET i == CHOOSE k \in found : \A j \in found : k <= j
                    IN  /\ after = {n + 1}
                        /\ out[n + 1] = Section("file", readme_names[i],
                               Excerpt(get_file_content(ws, readme_names[i]).text, readme_cap))

\* a relative path that stays under the root: no component sequence of it
\* climbs above the directory it starts from
UnderRoot(file_path) ==
    LET c == SplitPath(file_path)
        Up(k) == Cardinality({i \in 1..k : c[i] = <<".", ".">>})
        Down(k) == Cardinality({i \in 1..k : c[i] \notin {<<".", ".">>, <<".">>, <<>>}})
    IN  /\ file_path = <<>> \/ file_path[1] # "/"
        /\ \A k \in 1..Len(c) : Up(k) <= Down(k)

\* C26: get_file_content returns absent or the content of a file under the
\* workspace root, whatever the path argument is (with ".." components, or
\* absolute): never the content of a file outside the root.
C26_ReadsUnderRootOnly ==
    helper.fn = "get_file_content" =>
        \/ helper.value = None
        \/ /\ UnderRoot(helper.arg)
           /\ helper.value.text # T_outside

\* C27: the text process_code_for_llm returns does not depend on the query:
\* on the same workspace, with the same explicit files, every query gives
\* the sections of the call that was made.
C27_QueryIndependent ==
    helper.fn = "process_code_for_llm" =>
        \A query \in Queries :
            helper.value = process_code_for_llm(ws, walk, query, helper.arg.files)

\* a call whose query is in the path of a source file that is not the first
\* of the additional files
C27_Witness ==
    /\ helper.fn = "process_code_for_llm"
    /\ helper.arg.query # <<>>
    /\ \E k \in 2..Len(helper.value) :
           /\ helper.value[k].kind = "file"
           /\ helper.value[k - 1].kind = "file"
           /\ ~InSeq(helper.value[k - 1].path, helper.arg.files)
           /\ Contains(Lower(helper.value[k].path), Lower(helper.arg.query))
           /\ ~Contains(Lower(helper.value[k - 1].path), Lower(helper.arg.query))

\* C28: between the clone and the reclaim of the finally block the request
\* leaves the filesystem as it is; a path disappears only in a step of
\* force_delete_directory, or in the failing clone step, where git removes
\* what it has just written; and a request calls the clone at most once.
C28_OnlyReclaimDeletes ==
    [][/\ \A r \in Requests :
            /\ (Steps(r) /\ req[r].pc = "work") =>
                   /\ fs' = fs
                   /\ req'[r].pc = "fdd"
                   /\ req'[r].site = "final"
            /\ req'[r].clones <= 1
            /\ (req[r].pc \in {"clone", "cloning"} /\ req'[r].pc = "fdd") =>
                   req'[r].site = "fail"
       /\ \A p \in fs \ fs' :
            \E r \in Requests :
                /\ Steps(r)
                /\ req[r].dir = p
                /\ \/ req[r].pc = "fdd" /\ req'[r].pc = "recheck"
                   \/ req[r].pc = "cloning" /\ req'[r].site = "fail"]_vars

C28_Witness ==
    \E r \in Requests :
        /\ req[r].pc = "done"
        /\ req[r].result = "ok"
        /\ req[r].site = "final"
        /\ req[r].ret = "True"
        /\ req[r].clones = 1
        /\ req[r].dir \notin fs

=============================================================================
